---- MODULE Spec2Model ----
(***************************************************************************)
(* videojs-concurrence-limiter (src/src/plugin.js): the plugin validates   *)
(* a player against a remote authority, then runs a watchdog that reports  *)
(* position and token on a fixed cadence and blocks the player when the    *)
(* authority denies it or stops answering.                                 *)
(*                                                                         *)
(* The machine is single threaded and event driven: every action below is  *)
(* one callback of the plugin run to completion (the ready callback, an    *)
(* xhr callback, a timer tick, a player or window event handler).          *)
(*                                                                         *)
(* The host player is video.js 5: dispose() triggers 'dispose', removes    *)
(* every listener and drops the element, after which on(), trigger(),      *)
(* pause() and dispose() raise a TypeError; a throw ends the callback that *)
(* made the call.                                                          *)
(***************************************************************************)
EXTENDS Integers, Sequences, FiniteSets, TLC

\* ---------------------------------------------------------------- bounds
MaxUpdates == 3      \* update requests issued in one run
MaxFails == 1        \* largest maxUpdateFails option tried
MaxPosHalf == 1      \* largest playback position, in half seconds

\* ------------------------------------------------------------- constants
MinInterval == 5     \* options.interval < 5 is refused

Null == "null"
OwnID == "P1"                 \* the identity the constructor resolves
OtherIDs == {"P2"}            \* an identity an update response may carry
StartPositions == {0, 7}      \* options.startPosition
Intervals == {0, MinInterval - 1, MinInterval}   \* 0: absent/falsy

VARIABLES
  opts,            \* merged options (line 365)
  pc,              \* "new" | "invalid" | "validating" | "answered"
  disposed,        \* player.dispose() has run
  hostLoaded,      \* the host has fired 'loadedmetadata' at least once
  curTime,         \* the player's currentTime property: the method, or a number
  pluginCurTime,   \* this.currentTime of the plugin object (line 184)
  recoverPos,      \* info.position captured by recoverStatus' listener (0: no listener)
  watchdog,        \* closure variable of makeWatchdog: Null, "id" or "false"
  timerActive,     \* the interval created at line 305 is still scheduled
  pendingRequest,  \* closure variable (line 249)
  failedRequest,   \* closure variable (line 250)
  lasTime,         \* closure variable (line 201)
  playerToken,     \* closure variable (line 202)
  playerID,        \* closure variable (line 203)
  loadedmetadata,  \* closure variable (line 204)
  fistSent,        \* this.fistSent (line 211)
  validateInFlight,\* the validate xhr has not called back yet
  updInFlight,     \* update xhrs that have not called back yet
  log,             \* history: requests sent, responses received, player API calls
  unloaded,        \* history: cleanUp has run for a 'beforeunload'
  tickDropped,     \* history: wdf has returned at line 262
  progressLost     \* history, kept by ObservedSpec only: with the watchdog
                   \* running and the content loaded, a timeupdate after the
                   \* first left lasTime different from the player's position

vars == <<opts, pc, disposed, hostLoaded, curTime, pluginCurTime,
          recoverPos, watchdog, timerActive, pendingRequest, failedRequest, lasTime,
          playerToken, playerID, loadedmetadata, fistSent, validateInFlight,
          updInFlight, log, unloaded, tickDropped, progressLost>>

\* ------------------------------------------------------------ the history
\* One entry of the history. Requests carry the payload the plugin sent,
\* responses the body the authority answered, player calls their argument.
Ev(op) ==
  [op |-> op, kind |-> "-", player |-> "-", token |-> "-", position |-> 0,
   status |-> "-", code |-> "-", error |-> "-"]

Count(op) == Cardinality({i \in 1..Len(log) : log[i].op = op})

\* -------------------------------------------------- xhr answers (inputs)
Body(kind, success, token, player, position) ==
  [kind |-> kind, success |-> success, token |-> token, player |-> player,
   position |-> position]

EmptyBody == Body("empty", FALSE, Null, Null, 0)
GarbageBody == Body("garbage", FALSE, Null, Null, 0)
DenyBody == Body("json", FALSE, Null, Null, 0)

\* what videojs.xhr hands to the callback of makeRequest: (err, resp, body)
ValidateAnswers ==
  {[err |-> TRUE, body |-> EmptyBody]}
  \cup {[err |-> FALSE, body |-> b] : b \in {EmptyBody, GarbageBody, DenyBody}}
  \cup {[err |-> FALSE, body |-> Body("json", TRUE, Null, Null, 0)],
        [err |-> FALSE, body |-> Body("json", TRUE, "T1", Null, 45)]}

UpdateAnswers ==
  {[err |-> TRUE, body |-> EmptyBody]}
  \cup {[err |-> FALSE, body |-> b] : b \in {EmptyBody, GarbageBody, DenyBody}}
  \cup {[err |-> FALSE, body |-> Body("json", TRUE, t, Null, 0)] : t \in {Null, "T1"}}
  \cup {[err |-> FALSE, body |-> Body("json", TRUE, "T2", p, 0)] : p \in OtherIDs}

\* how an answer is written to the history: by what was received
AnswerKind(raw) ==
  IF raw.err THEN "neterr"
  ELSE IF raw.body.kind # "json" THEN raw.body.kind
  ELSE IF raw.body.success THEN "ok" ELSE "deny"

Answer(op, raw) ==
  [Ev(op) EXCEPT !.kind = AnswerKind(raw), !.token = raw.body.token,
                 !.player = raw.body.player, !.position = raw.body.position]

\* ------------------------------------------------------------ makeRequest
\* JSON.parse of the body: an empty body becomes {error: 'invalid body'},
\* an unparsable one becomes null (the catch).
JsonNull ==
  [isNull |-> TRUE, success |-> FALSE, token |-> Null, player |-> Null, position |-> 0]

ParseBody(body) ==
  IF body.kind = "empty"
    THEN [isNull |-> FALSE, success |-> FALSE, token |-> Null, player |-> Null,
          position |-> 0]
  ELSE IF body.kind = "garbage" THEN JsonNull
  ELSE [isNull |-> FALSE, success |-> body.success, token |-> body.token,
        player |-> body.player, position |-> body.position]

\* cb(err ? err.message || err : null, bodyJson)
MakeRequestCb(raw) == [error |-> raw.err, json |-> ParseBody(raw.body)]

\* ------------------------------------------------------------- identity
\* ConcurrentViewIdMaker.generate: the caller's id, else a stored/random one
Generate(options) == IF options.playerID # Null THEN options.playerID ELSE OwnID

\* ------------------------------------------------------- option checking
ValidOptions_NoIntervalFloor ==
  /\ opts.accessurl /\ opts.updateurl /\ opts.disposeurl
  /\ opts.interval # 0

\* lines 369 and 374: the two early returns of the ready callback
ValidOptions ==
  /\ ~(~opts.accessurl \/ ~opts.updateurl \/ ~opts.disposeurl)
  /\ ~(opts.interval = 0 \/ opts.interval < MinInterval)

\* ------------------------------------------------- the code's conditions
ValidateOk_AnyBody(json) == ~json.isNull

\* line 133: ok && ok.success
ValidateOk(json) == ~json.isNull /\ json.success

UpdateGranted_AnyBody(json) == ~json.isNull

\* line 293: response && response.success
UpdateGranted(json) == ~json.isNull /\ json.success

WdfSkips_Never == FALSE

\* line 261: if (pendingRequest) return
WdfSkips == pendingRequest

TooManyFails_Strict == failedRequest > opts.maxUpdateFails

TooManyFails_Never == FALSE

\* line 281: failedRequest >= options.maxUpdateFails
TooManyFails == failedRequest >= opts.maxUpdateFails

FailsAfterAnswer_Kept == failedRequest

\* line 291: failedRequest = 0
FailsAfterAnswer == 0

CleanUpRuns_Unguarded == watchdog # Null

\* line 225: if (watchdog)
CleanUpRuns == watchdog = "id"

NextToken_Overwrite(json) == json.token

\* line 295: playerToken = response.token || playerToken
NextToken(json) == IF json.token # Null THEN json.token ELSE playerToken

NextPlayer_Kept(json) == playerID

\* line 294: playerID = response.player || playerID
NextPlayer(json) == IF json.player # Null THEN json.player ELSE playerID

\* line 216: Math.round(player.currentTime() || 0), the position in half seconds
Round(half) == (half + 1) \div 2

TimeSkips_FirstOnly == ~fistSent

\* line 211: if (!loadedmetadata || !this.fistSent)
TimeSkips == ~loadedmetadata \/ ~fistSent

HooksRaise_Never == FALSE

\* lines 184, 206: recoverStatus and makeWatchdog begin with player.on(),
\* which raises on a disposed player and ends the validate callback there
HooksRaise == disposed

\* lines 244-245: cleanUp listens to 'dispose' and 'beforeunload' once
\* makeWatchdog has run
Hooked == watchdog # Null

\* ------------------------------------------------------ what the code emits
\* lines 268-273. status is 'paused' or 'playing' as player.paused() answers
\* at that moment; the plugin forwards it and never reads it back.
UpdateReq(id, tok, pos) ==
  [Ev("update") EXCEPT !.player = id, !.token = tok, !.position = pos,
                       !.status = "paused|playing"]

\* lines 231-236
ReleaseReq ==
  [Ev("release") EXCEPT !.player = playerID, !.token = playerToken,
                        !.position = lasTime, !.status = "paused"]

CleanUpLog_ReleaseFirst ==
  IF CleanUpRuns THEN <<ReleaseReq, Ev("clearInterval")>> ELSE <<>>

\* lines 222-241: cleanUp
CleanUpLog == IF CleanUpRuns THEN <<Ev("clearInterval"), ReleaseReq>> ELSE <<>>
CleanUpWatchdog == IF CleanUpRuns THEN "false" ELSE watchdog

StartLog_NoFirstCall == <<Ev("setInterval")>>

\* lines 305-308: watchdog = player.setInterval(wdf, ...); wdf();
StartLog ==
  <<Ev("setInterval"), UpdateReq(opts.playerID, Null, opts.startPosition)>>

\* what player.dispose() runs of the plugin: the 'dispose' listener
DisposeLog == IF Hooked THEN CleanUpLog ELSE <<>>
DisposeWatchdog == IF Hooked THEN CleanUpWatchdog ELSE watchdog

\* lines 155-170: blockPlayer(code, error). On a disposed player trigger()
\* raises and pause() and dispose() are not reached.
Bloked(code, error) ==
  [Ev("bloked") EXCEPT !.code = code, !.error = error,
                       !.kind = IF disposed THEN "raised" ELSE "delivered"]

BlockLog_CleanUpFirst(code, error) ==
  IF disposed THEN <<Bloked(code, error)>>
  ELSE DisposeLog \o <<Bloked(code, error), Ev("pause"), Ev("dispose")>>

BlockLog(code, error) ==
  IF disposed THEN <<Bloked(code, error)>>
  ELSE <<Bloked(code, error), Ev("pause"), Ev("dispose")>> \o DisposeLog

\* ------------------------------------------------------------------ Init
\* The state when the plugin function is called: merged options (line 365),
\* a player that is not disposed, nothing sent.
Init ==
  /\ opts \in [accessurl : BOOLEAN, updateurl : BOOLEAN, disposeurl : BOOLEAN,
               interval : Intervals, playerID : {Null},
               startPosition : StartPositions, maxUpdateFails : 0..MaxFails]
  /\ pc = "new"
  /\ disposed = FALSE
  /\ hostLoaded = FALSE
  /\ curTime = [isMethod |-> TRUE, value |-> 0]
  /\ pluginCurTime = 0
  /\ recoverPos = 0
  /\ watchdog = Null
  /\ timerActive = FALSE
  /\ pendingRequest = FALSE
  /\ failedRequest = 0
  /\ lasTime = 0
  /\ playerToken = Null
  /\ playerID = Null
  /\ loadedmetadata = FALSE
  /\ fistSent = FALSE
  /\ validateInFlight = FALSE
  /\ updInFlight = 0
  /\ log = <<>>
  /\ unloaded = FALSE
  /\ tickDropped = FALSE
  /\ progressLost = FALSE

\* --------------------------------------------------------------- actions
\* lines 361-381, 326-332, 75-80, 119-125: the ready callback checks the
\* options and, when they pass, builds the plugin and sends validate.
Start ==
  /\ pc = "new"
  /\ ~disposed
  /\ IF ~ValidOptions
       THEN /\ pc' = "invalid"
            /\ UNCHANGED <<opts, validateInFlight, log>>
       ELSE /\ pc' = "validating"
            /\ opts' = [opts EXCEPT !.playerID = Generate(opts)]
            /\ validateInFlight' = TRUE
            /\ log' = Append(log, [Ev("validate") EXCEPT !.player = Generate(opts)])
  /\ UNCHANGED <<disposed, hostLoaded, curTime, pluginCurTime,
                 recoverPos, watchdog, timerActive, pendingRequest, failedRequest,
                 lasTime, playerToken, playerID, loadedmetadata, fistSent,
                 updInFlight, unloaded, tickDropped, progressLost>>

\* lines 100-111, 126-143, 332-345: the validate xhr calls back. A failure
\* blocks the player; a success runs recoverStatus (177-186) and makeWatchdog
\* (195-311), whose last statement is the first wdf() call, and then
\* triggers 'avplayercanplay'.
\* On a disposed player the first player.on() raises: line 182 has run,
\* nothing after it.
ValidateResponse(raw) ==
  LET r == MakeRequestCb(raw)
      pos == r.json.position
  IN
  /\ validateInFlight
  /\ validateInFlight' = FALSE
  /\ pc' = "answered"
  /\ IF r.error \/ ~ValidateOk(r.json)
       THEN /\ log' = log \o <<Answer("valresp", raw)>> \o BlockLog("cantplay", "Error")
            /\ disposed' = TRUE
            /\ UNCHANGED <<curTime, recoverPos, watchdog, timerActive, lasTime,
                           playerToken, playerID, updInFlight, pendingRequest>>
     ELSE IF HooksRaise
       THEN /\ log' = Append(log, Answer("valresp", raw))
            /\ curTime' = IF pos # 0 THEN [isMethod |-> FALSE, value |-> pos] ELSE curTime
            /\ UNCHANGED <<disposed, recoverPos, watchdog, timerActive, lasTime,
                           playerToken, playerID, updInFlight, pendingRequest>>
       ELSE /\ curTime' = IF pos # 0 THEN [isMethod |-> FALSE, value |-> pos] ELSE curTime
            /\ recoverPos' = pos
            /\ lasTime' = opts.startPosition
            /\ playerToken' = Null
            /\ playerID' = opts.playerID
            /\ watchdog' = "id"
            /\ timerActive' = TRUE
            /\ pendingRequest' = TRUE
            /\ updInFlight' = updInFlight + 1
            /\ log' = log \o <<Answer("valresp", raw)>> \o StartLog
                           \o <<Ev("canplay")>>
            /\ UNCHANGED disposed
  /\ UNCHANGED <<opts, hostLoaded, pluginCurTime, failedRequest,
                 loadedmetadata, fistSent, unloaded, tickDropped, progressLost>>

\* lines 253-303: the interval fires wdf, which triggers 'avplayerupdate'
\* (not recorded) and sends an update unless one is pending
Tick ==
  /\ timerActive
  /\ WdfSkips \/ Count("update") < MaxUpdates
  /\ IF WdfSkips
       THEN /\ tickDropped' = TRUE
            /\ UNCHANGED <<pendingRequest, updInFlight, log>>
       ELSE /\ pendingRequest' = TRUE
            /\ updInFlight' = updInFlight + 1
            /\ log' = Append(log, UpdateReq(playerID, playerToken, lasTime))
            /\ UNCHANGED tickDropped
  /\ UNCHANGED <<opts, pc, disposed, hostLoaded, curTime,
                 pluginCurTime, recoverPos, watchdog, timerActive, failedRequest,
                 lasTime, playerToken, playerID, loadedmetadata, fistSent,
                 validateInFlight, unloaded, progressLost>>

\* lines 274-301: the update xhr calls back. blockPlayer is called with
\* (player, 'authapifail' | 'noauth', ...): the event's code is the player
\* object. When blockPlayer raises (disposed player) line 286 is not reached.
UpdateResponse(raw) ==
  LET r == MakeRequestCb(raw)
      blocks == IF r.error THEN TooManyFails ELSE ~UpdateGranted(r.json)
      why == IF r.error THEN "authapifail" ELSE "noauth"
  IN
  /\ updInFlight > 0
  /\ updInFlight' = updInFlight - 1
  /\ pendingRequest' = FALSE
  /\ failedRequest' = IF r.error
                        THEN IF blocks /\ disposed THEN failedRequest
                             ELSE failedRequest + 1
                        ELSE FailsAfterAnswer
  /\ IF blocks
       THEN /\ log' = log \o <<Answer("updresp", raw)>> \o BlockLog("player", why)
            /\ disposed' = TRUE
            /\ watchdog' = IF disposed THEN watchdog ELSE DisposeWatchdog
            /\ timerActive' = FALSE
            /\ UNCHANGED <<playerID, playerToken>>
       ELSE /\ log' = Append(log, Answer("updresp", raw))
            /\ playerID' = IF r.error THEN playerID ELSE NextPlayer(r.json)
            /\ playerToken' = IF r.error THEN playerToken ELSE NextToken(r.json)
            /\ UNCHANGED <<disposed, watchdog, timerActive>>
  /\ UNCHANGED <<opts, pc, hostLoaded, curTime, pluginCurTime, recoverPos,
                 lasTime, loadedmetadata, fistSent, validateInFlight, unloaded,
                 tickDropped, progressLost>>

\* line 244: the host disposes the player; 'dispose' runs cleanUp, and
\* video.js itself clears the intervals made with player.setInterval and
\* removes the player's listeners.
PlayerDispose ==
  /\ pc # "new"
  /\ ~disposed
  /\ disposed' = TRUE
  /\ timerActive' = FALSE
  /\ watchdog' = DisposeWatchdog
  /\ log' = log \o DisposeLog
  /\ UNCHANGED <<opts, pc, hostLoaded, curTime, pluginCurTime,
                 recoverPos, pendingRequest, failedRequest, lasTime, playerToken,
                 playerID, loadedmetadata, fistSent, validateInFlight, updInFlight,
                 unloaded, tickDropped, progressLost>>

\* line 245: the window fires 'beforeunload'; the listener is cleanUp and
\* outlives the player.
Unload ==
  /\ Hooked
  /\ unloaded' = TRUE
  /\ watchdog' = CleanUpWatchdog
  /\ timerActive' = IF CleanUpRuns THEN FALSE ELSE timerActive
  /\ log' = log \o CleanUpLog
  /\ UNCHANGED <<opts, pc, disposed, hostLoaded, curTime,
                 pluginCurTime, recoverPos, pendingRequest, failedRequest, lasTime,
                 playerToken, playerID, loadedmetadata, fistSent, validateInFlight,
                 updInFlight, tickDropped, progressLost>>

\* lines 184 and 206: the host reports the content's metadata loaded
LoadedMetadata ==
  /\ ~disposed
  /\ hostLoaded' = TRUE
  /\ pluginCurTime' = IF recoverPos # 0 THEN recoverPos ELSE pluginCurTime
  /\ loadedmetadata' = IF Hooked THEN TRUE ELSE loadedmetadata
  /\ UNCHANGED <<opts, pc, disposed, curTime, recoverPos, watchdog,
                 timerActive, pendingRequest, failedRequest, lasTime, playerToken,
                 playerID, fistSent, validateInFlight, updInFlight, log, unloaded,
                 tickDropped, progressLost>>

\* lines 208-217: the host reports playback progress, the media being at
\* half/2 seconds. player.currentTime() raises once line 182 has replaced
\* the method by a number.
TimeUpdate(half) ==
  /\ ~disposed
  /\ IF ~Hooked
       THEN UNCHANGED <<fistSent, lasTime>>
     ELSE IF TimeSkips
       THEN fistSent' = TRUE /\ UNCHANGED lasTime
     ELSE /\ lasTime' = IF curTime.isMethod THEN Round(half) ELSE lasTime
          /\ UNCHANGED fistSent
  /\ UNCHANGED <<opts, pc, disposed, hostLoaded, curTime, pluginCurTime,
                 recoverPos, watchdog, timerActive, pendingRequest, failedRequest,
                 playerToken, playerID, loadedmetadata, validateInFlight,
                 updInFlight, log, unloaded, tickDropped, progressLost>>

Next ==
  \/ Start
  \/ \E raw \in ValidateAnswers : ValidateResponse(raw)
  \/ Tick
  \/ \E raw \in UpdateAnswers : UpdateResponse(raw)
  \/ PlayerDispose
  \/ Unload
  \/ LoadedMetadata
  \/ \E half \in 0..MaxPosHalf : TimeUpdate(half)

Spec == Init /\ [][Next]_vars

\* --------------------------------------- the server stops granting updates
\* A run in which the host neither disposes the player nor unloads the page,
\* the interval keeps firing, every update is answered, and after the first
\* GrantedAnswers answers every update fails or is denied.
GrantedAnswers == MaxUpdates - (MaxFails + 1)

\* the answers that take the error branch (line 278) or the denial branch
\* (line 297) of the update callback
FailingAnswers == {raw \in UpdateAnswers : AnswerKind(raw) # "ok"}

FailingUpdateResponse == \E raw \in FailingAnswers : UpdateResponse(raw)

GrantedUpdateResponse ==
  /\ Count("updresp") < GrantedAnswers
  /\ \E raw \in UpdateAnswers \ FailingAnswers : UpdateResponse(raw)

NextRevoked ==
  \/ Start
  \/ \E raw \in ValidateAnswers : ValidateResponse(raw)
  \/ Tick
  \/ GrantedUpdateResponse
  \/ FailingUpdateResponse
  \/ LoadedMetadata
  \/ \E half \in 0..MaxPosHalf : TimeUpdate(half)

\* player.setInterval keeps calling wdf while the timer exists, and the xhr
\* of line 99 calls back with an answer or, at the timeout, with an error
RevokedSpec ==
  /\ Init
  /\ [][NextRevoked]_vars
  /\ WF_vars(Tick)
  /\ WF_vars(FailingUpdateResponse)

\* ------------------------------------------ the same run, progress observed
\* The timeupdate handler of lines 208-217 as in TimeUpdate, with the
\* history variable progressLost kept: it compares what line 216 left in
\* lasTime with the position the player was at.
ObservedTimeUpdate(half) ==
  /\ ~disposed
  /\ IF ~Hooked
       THEN UNCHANGED <<fistSent, lasTime>>
     ELSE IF TimeSkips
       THEN fistSent' = TRUE /\ UNCHANGED lasTime
     ELSE /\ lasTime' = IF curTime.isMethod THEN Round(half) ELSE lasTime
          /\ UNCHANGED fistSent
  /\ progressLost' = (progressLost \/
                        (watchdog = "id" /\ hostLoaded /\ fistSent
                           /\ lasTime' # Round(half)))
  /\ UNCHANGED <<opts, pc, disposed, hostLoaded, curTime, pluginCurTime,
                 recoverPos, watchdog, timerActive, pendingRequest, failedRequest,
                 playerToken, playerID, loadedmetadata, validateInFlight,
                 updInFlight, log, unloaded, tickDropped>>

NextObserved ==
  \/ Start
  \/ \E raw \in ValidateAnswers : ValidateResponse(raw)
  \/ Tick
  \/ \E raw \in UpdateAnswers : UpdateResponse(raw)
  \/ PlayerDispose
  \/ Unload
  \/ LoadedMetadata
  \/ \E half \in 0..MaxPosHalf : ObservedTimeUpdate(half)

ObservedSpec == Init /\ [][NextObserved]_vars

\* ------------------------------------------------------ reading the history
Idx(op) == {i \in 1..Len(log) : log[i].op = op}

\* the entry right after entry i is the blocked notification
BlockedAt(i) == i < Len(log) /\ log[i + 1].op = "bloked"

\* the update answer before entry i (0: none)
PrevAnswer(i) ==
  LET before == {j \in Idx("updresp") : j < i}
  IN IF before = {} THEN 0 ELSE CHOOSE j \in before : \A k \in before : k <= j

\* how many update answers in a row, ending with answer i, were transport errors
RECURSIVE ErrRun(_)
ErrRun(i) ==
  IF i = 0 THEN 0
  ELSE IF log[i].kind # "neterr" THEN 0
  ELSE 1 + ErrRun(PrevAnswer(i))

\* the options the claim calls invalid, written from the claim's words
BadOptions ==
  \/ ~opts.accessurl
  \/ ~opts.updateurl
  \/ ~opts.disposeurl
  \/ opts.interval < 5

\* -------------------------------------------------------------------- C1
\* C1: when accessurl, updateurl or disposeurl is missing, or interval is
\* absent or below 5, no validate, update or release request is ever sent
\* and no watchdog timer is ever created.
C1_InvalidOptionsDoNothing ==
  BadOptions =>
    /\ log = <<>>
    /\ ~validateInFlight
    /\ updInFlight = 0
    /\ watchdog = Null
    /\ ~timerActive

\* the ready callback has run on options with all URLs and interval 4
C1_Witness ==
  /\ pc = "invalid"
  /\ opts.accessurl /\ opts.updateurl /\ opts.disposeurl
  /\ opts.interval = 4

\* -------------------------------------------------------------------- C2
\* C2: when the validate call does not succeed (transport error, empty or
\* unparsable body, body without a truthy success), the blocked
\* notification is triggered with code 'cantplay' right after the answer,
\* and in that run no timer is created and no update or release is sent.
C2_ValidateFailureBlocks ==
  \A i \in Idx("valresp") :
    log[i].kind # "ok" =>
      /\ BlockedAt(i)
      /\ log[i + 1].code = "cantplay"
      /\ Idx("setInterval") = {}
      /\ Idx("update") = {}
      /\ Idx("release") = {}
      /\ watchdog = Null
      /\ ~timerActive

\* the authority answered {success: false} to validate on a live player
C2_Witness ==
  \E i \in Idx("valresp") :
    /\ log[i].kind = "deny"
    /\ BlockedAt(i)
    /\ log[i + 1].kind = "delivered"

\* -------------------------------------------------------------------- C3
\* C3: at most one update request is outstanding in every reachable state;
\* a tick that finds a request pending sends nothing.
C3_OneUpdateInFlight ==
  /\ updInFlight <= 1
  /\ Cardinality(Idx("update")) - Cardinality(Idx("updresp")) <= 1

\* a tick has been dropped and the request it met is still outstanding
C3_Witness == tickDropped /\ updInFlight = 1 /\ timerActive

\* -------------------------------------------------------------------- C4
\* C4: with maxUpdateFails = N, in a run of consecutive update answers that
\* are transport errors, none of the first N is followed by the blocked
\* notification and the (N+1)th is; no run gets longer than N+1.
C4_BlockAtNPlusOneFailures ==
  \A i \in Idx("updresp") :
    log[i].kind = "neterr" =>
      /\ ErrRun(i) <= opts.maxUpdateFails + 1
      /\ ErrRun(i) <= opts.maxUpdateFails => ~BlockedAt(i)
      /\ ErrRun(i) = opts.maxUpdateFails + 1 =>
           BlockedAt(i) /\ log[i + 1].error = "authapifail"

\* maxUpdateFails = 1: the first transport error passed, the second blocked
C4_Witness ==
  /\ opts.maxUpdateFails = 1
  /\ \E i \in Idx("updresp") :
       /\ ErrRun(i) = 2
       /\ ~BlockedAt(PrevAnswer(i))
       /\ BlockedAt(i)
       /\ log[i + 1].kind = "delivered"

\* -------------------------------------------------------------------- C5
\* C5: right after a successful update answer the failure counter is zero,
\* and the player is blocked for update failures only by a transport error
\* that ends a run of more than maxUpdateFails transport errors with no
\* other answer between them.
C5_SuccessResetsFailures ==
  /\ (Len(log) > 0 /\ log[Len(log)].op = "updresp" /\ log[Len(log)].kind = "ok")
       => failedRequest = 0
  /\ \A j \in Idx("bloked") :
       log[j].error = "authapifail" =>
         /\ log[j - 1].op = "updresp"
         /\ log[j - 1].kind = "neterr"
         /\ ErrRun(j - 1) > opts.maxUpdateFails

\* maxUpdateFails = 1: error, success, error; the counter was reset in
\* between, so the second error did not block
C5_Witness ==
  /\ opts.maxUpdateFails = 1
  /\ \E i \in Idx("updresp") :
       /\ log[i].kind = "neterr"
       /\ PrevAnswer(i) # 0
       /\ log[PrevAnswer(i)].kind = "ok"
       /\ PrevAnswer(PrevAnswer(i)) # 0
       /\ log[PrevAnswer(PrevAnswer(i))].kind = "neterr"
       /\ ~BlockedAt(i)
       /\ failedRequest = 1

\* -------------------------------------------------------------------- C6
\* C6: an update answer that parses and has no truthy success is followed
\* at once by the blocked notification and the end of the session (player
\* disposed, timer cancelled, release sent), whatever the failure counter
\* and maxUpdateFails are, the first update answer included.
C6_DenialTerminatesAtOnce ==
  \A i \in Idx("updresp") :
    log[i].kind = "deny" =>
      /\ BlockedAt(i)
      /\ log[i + 1].error = "noauth"
      /\ disposed
      /\ ~timerActive
      /\ Idx("release") # {}

\* the first update was denied although a failure would have been tolerated
C6_Witness ==
  /\ opts.maxUpdateFails >= 1
  /\ \E i \in Idx("updresp") :
       /\ log[i].kind = "deny"
       /\ PrevAnswer(i) = 0
       /\ log[i + 1].kind = "delivered"

\* -------------------------------------------------------------------- C7
\* C7: once the watchdog was started, shutdown triggers (player dispose,
\* page unload, block), in any order and number, give exactly one release
\* request; no run ever sends more than one.
C7_ExactlyOneRelease ==
  /\ Cardinality(Idx("release")) <= 1
  /\ (Idx("setInterval") # {} /\ (disposed \/ unloaded))
       => Cardinality(Idx("release")) = 1

\* disposed and unloaded before any tick: only the first, synchronous update
\* was ever sent
C7_Witness ==
  /\ disposed
  /\ unloaded
  /\ Cardinality(Idx("update")) = 1
  /\ ~tickDropped
  /\ Cardinality(Idx("release")) = 1

\* -------------------------------------------------------------------- C8
\* the token of the last successful update answer before entry i that had
\* one (Null: none)
LastToken(i) ==
  LET given == {j \in Idx("updresp") :
                  j < i /\ log[j].kind = "ok" /\ log[j].token # Null}
  IN IF given = {} THEN Null
     ELSE log[CHOOSE j \in given : \A k \in given : k <= j].token

\* C8: every update request and the release request carry the token of the
\* most recent successful update answer that had a token, null when there
\* was none; a successful answer without a token changes nothing.
C8_RequestsCarryLastToken ==
  /\ \A i \in Idx("update") \cup Idx("release") : log[i].token = LastToken(i)
  /\ playerToken = LastToken(Len(log) + 1)

\* answers T1, then T2, then one without a token; the release carries T2
C8_Witness ==
  \E i, j, k, m \in 1..Len(log) :
    /\ i < j /\ j < k /\ k < m
    /\ log[i].op = "updresp" /\ log[i].kind = "ok" /\ log[i].token = "T1"
    /\ log[j].op = "updresp" /\ log[j].kind = "ok" /\ log[j].token = "T2"
    /\ log[k].op = "updresp" /\ log[k].kind = "ok" /\ log[k].token = Null
    /\ log[m].op = "release" /\ log[m].token = "T2"

\* -------------------------------------------------------------------- C9
\* C9: a position recovered from the validate answer reaches the player's
\* playback position only after the host has reported the metadata loaded,
\* never before.
C9_RecoveredPositionWaitsForMetadata == ~curTime.isMethod => hostLoaded

\* ------------------------------------------------------------------- C10
\* update answers in a row, ending with answer i, that were transport
\* errors, empty bodies or unparsable bodies
RECURSIVE FailRun(_)
FailRun(i) ==
  IF i = 0 THEN 0
  ELSE IF log[i].kind \notin {"neterr", "empty", "garbage"} THEN 0
  ELSE 1 + FailRun(PrevAnswer(i))

\* C10: an update answer with an empty or unparsable body counts as one
\* more failure and blocks the player only when the run of failures exceeds
\* maxUpdateFails.
C10_ParseErrorsAreTolerated ==
  \A i \in Idx("updresp") :
    (log[i].kind \in {"empty", "garbage"} /\ BlockedAt(i))
      => FailRun(i) > opts.maxUpdateFails

\* ------------------------------------------------------------------- C11
\* C11: the answer to an update that was in flight when the session ended
\* (cleanUp has run for a dispose or an unload) is discarded: it changes
\* neither the token, the identity nor the failure counter, and nothing but
\* the answer itself enters the history (no blocked notification, no
\* pause, no dispose).
C11_LateAnswerIsDiscarded ==
  [][(watchdog = "false" /\ updInFlight' < updInFlight) =>
       /\ playerToken' = playerToken
       /\ playerID' = playerID
       /\ failedRequest' = failedRequest
       /\ Len(log') = Len(log) + 1]_vars

\* ------------------------------------------------------------------- C12
Requests == Idx("validate") \cup Idx("update") \cup Idx("release")

\* the successful update answers that carried a player field
PlayerAnswers ==
  {j \in 1..Len(log) :
     log[j].op = "updresp" /\ log[j].kind = "ok" /\ log[j].player # Null}

\* the player field of the last of the answers in given before entry i,
\* else the identity resolved at startup
LastPlayer(given, i) ==
  LET before == {j \in given : j < i}
  IN IF before = {} THEN OwnID
     ELSE log[CHOOSE j \in before : \A k \in before : k <= j].player

\* C12 (as stated): every validate, update and release request of a run
\* carries the same player identity.
C12_IdentityNeverChanges ==
  \A i, j \in Requests : log[i].player = log[j].player

\* C12 (amended): the validate request and the first update carry the
\* identity resolved at startup; every later update and the release carry
\* the player field of the most recent successful update answer that had
\* one, and the startup identity when there was none.
C12_IdentityFollowsAnswers ==
  [](LET given == PlayerAnswers
     IN /\ \A i \in Requests : log[i].player = LastPlayer(given, i)
        /\ Hooked => playerID = LastPlayer(given, Len(log) + 1))

\* an answer carried P2 and the release went out under P2
C12_Witness ==
  \E i, m \in 1..Len(log) :
    /\ i < m
    /\ log[i].op = "updresp" /\ log[i].kind = "ok" /\ log[i].player = "P2"
    /\ log[m].op = "release" /\ log[m].player = "P2"

\* ------------------------------------------------------------------- C13
\* C13: the cadence timer is cancelled before the release request is
\* issued, whatever triggers the termination: every release request comes
\* right after the clearInterval of the same cleanUp, and once a release
\* request has been issued the timer is not running and no update request
\* follows it; no later step starts the timer again or sends an update.
C13_TimerCancelledBeforeRelease ==
  /\ [](\A j \in Idx("release") :
          /\ j > 1 /\ log[j - 1].op = "clearInterval"
          /\ ~timerActive
          /\ \A k \in Idx("update") : k < j)
  /\ [][(Idx("release") # {}) =>
          /\ ~timerActive'
          /\ updInFlight' <= updInFlight
          /\ \A k \in (Len(log) + 1)..Len(log') : log'[k].op # "update"]_vars

\* a page unload released the session of a player that is still alive, and
\* the answer of the update that was in flight came in afterwards
C13_Witness ==
  /\ unloaded /\ watchdog = "false"
  /\ \E j \in Idx("release"), k \in Idx("updresp") : j < k

\* ------------------------------------------------------------------- C14
\* the update answers that made the callback block a session which had not
\* released yet
BlockingAnswers ==
  LET answers == Idx("updresp")
      releases == Idx("release")
      blocks == {j \in Idx("bloked") : log[j].kind = "delivered"}
  IN {a \in answers :
        /\ \A r \in releases : a < r
        /\ \E j \in blocks :
             a < j /\ \A k \in answers : k <= a \/ j < k}

\* C14 (as stated): when an update denial or an exceeded failure threshold
\* terminates the session, the timer is cancelled, then the release request
\* is issued, and only then the blocked notification is delivered and the
\* player paused and disposed.
C14_ReleaseBeforeNotification ==
  \A a \in BlockingAnswers :
    /\ Len(log) >= a + 5
    /\ log[a + 1].op = "clearInterval"
    /\ log[a + 2].op = "release"
    /\ log[a + 3].op = "bloked"
    /\ log[a + 4].op = "pause"
    /\ log[a + 5].op = "dispose"

\* C14 (amended): when an update denial or an exceeded failure threshold
\* terminates a session that has not released yet, the blocked notification
\* is delivered first, then the player is paused and disposed, and it is
\* the disposal that cancels the timer and then issues the release request.
C14_NotificationBeforeRelease ==
  [](\A a \in BlockingAnswers :
       /\ Len(log) >= a + 5
       /\ log[a + 1].op = "bloked"
       /\ log[a + 2].op = "pause"
       /\ log[a + 3].op = "dispose"
       /\ log[a + 4].op = "clearInterval"
       /\ log[a + 5].op = "release")

\* an update was denied, or failed once too often, on a running session
C14_Witness ==
  /\ BlockingAnswers # {}
  /\ ~unloaded /\ disposed /\ watchdog = "false"

\* ------------------------------------------------------------------- C15
\* C15: once the watchdog exists, the last observed position changes only
\* in a step that is a time-progress notification (nothing is sent),
\* received after the content-loaded notification and after an earlier
\* time-progress notification; and as long as the content has not loaded,
\* every update and release request issued so far carries startPosition.
C15_PositionOnlyAfterLoadedAndFirst ==
  /\ [](~hostLoaded =>
          \A i \in Idx("update") \cup Idx("release") :
            log[i].position = opts.startPosition)
  /\ [][(Hooked /\ lasTime' # lasTime) =>
          /\ hostLoaded /\ loadedmetadata /\ fistSent
          /\ log' = log]_vars

\* the position moved off startPosition and an update then reported it
C15_Witness ==
  /\ loadedmetadata /\ fistSent
  /\ \E i \in Idx("update") :
       log[i].position # opts.startPosition /\ log[i].position = lasTime

\* ------------------------------------------------------------------- C16
\* C16: a session is started only by a successful validate answer; the step
\* that creates the timer is the step that receives that answer, and it
\* also issues the first update request, right after setInterval and with
\* the initial token and position, so no update request exists without the
\* timer having been created before it; and the timer is created once.
C16_FirstUpdateWithTimer ==
  /\ [](/\ Cardinality(Idx("setInterval")) <= 1
        /\ Hooked <=> Idx("setInterval") # {}
        /\ \A i \in Idx("setInterval") :
             /\ i > 1 /\ log[i - 1].op = "valresp" /\ log[i - 1].kind = "ok"
             /\ i < Len(log)
             /\ log[i + 1] = UpdateReq(OwnID, Null, opts.startPosition)
             /\ \A u \in Idx("update") : i < u)
  /\ [][(watchdog = Null /\ watchdog' # Null) =>
          /\ validateInFlight /\ ~validateInFlight'
          /\ timerActive' /\ pendingRequest' /\ updInFlight' = 1
          /\ Len(log') = Len(log) + 4
          /\ log'[Len(log) + 1].op = "valresp"
          /\ log'[Len(log) + 2].op = "setInterval"
          /\ log'[Len(log) + 3] = UpdateReq(OwnID, Null, opts.startPosition)]_vars

\* the first update was answered and a tick has sent a second one
C16_Witness ==
  /\ Idx("setInterval") # {}
  /\ Cardinality(Idx("update")) >= 2
  /\ Idx("updresp") # {}

\* ------------------------------------------------------------------- C17
\* the blocked notification was delivered, the timer is cancelled and the
\* release request was issued
Terminated ==
  /\ \E j \in Idx("bloked") : log[j].kind = "delivered"
  /\ ~timerActive /\ watchdog = "false"
  /\ Idx("release") # {}

\* C17: when the interval keeps firing, every update is answered and from
\* some point on every answer is a failure or a denial, a started session
\* is eventually terminated: blocked notification delivered, timer
\* cancelled, release request issued.
C17_RevokedSessionTerminates == (Idx("setInterval") # {}) ~> Terminated

\* the server granted one update, then failed maxUpdateFails + 1 times in a
\* row, and the session was terminated
C17_Witness ==
  /\ Terminated
  /\ opts.maxUpdateFails = MaxFails
  /\ \E g \in Idx("updresp") : log[g].kind = "ok"
  /\ Cardinality({f \in Idx("updresp") : log[f].kind = "neterr"}) = MaxFails + 1

\* ------------------------------------------------------------------- C18
\* C18: in every run the blocked notification is triggered at most once,
\* and the plugin pauses the player at most once and disposes it at most
\* once.
C18_BlockedAtMostOnce ==
  [](/\ Cardinality(Idx("bloked")) <= 1
     /\ Cardinality(Idx("pause")) <= 1
     /\ Cardinality(Idx("dispose")) <= 1)

\* the page unloaded with an update in flight, the session released, and
\* the late answer then blocked the player, once
C18_Witness ==
  /\ unloaded
  /\ \E r \in Idx("release"), j \in Idx("bloked") :
       r < j /\ log[j].kind = "delivered"
  /\ Cardinality(Idx("dispose")) = 1

C20_ProgressIsObserved == ~progressLost

====
